---- MODULE Spec2Model ----
(***************************************************************************)
(* A model of the pitu bot runtime: the node registry filled by            *)
(* Bot.flow / Flow.node, the plugin chain built by Bot.run and the         *)
(* receive-then-enter protocol of Bot.internalRun.                         *)
(*                                                                         *)
(* Strings the code takes apart (node ids, flow names, the message) are    *)
(* sequences of one-character strings, so that split("."), includes(".")   *)
(* and template concatenation are computed and not assumed.  The value     *)
(* undefined of an optional string is the one-element sequence Undefined,  *)
(* which no string of characters equals.  Texts passed to send are never   *)
(* taken apart and stay atomic.                                            *)
(***************************************************************************)
EXTENDS Integers, Sequences, FiniteSets, TLC

VARIABLES
    config,        \* Bot.config: [defaultStartNode, plugins]
    stateManager,  \* Bot.stateManager: the Map from "flow.node" to NodeHandlers
    serving,       \* TRUE once the first run call was made (registration is over)
    pc,            \* position of the run call in flight, "idle" when there is none
    args,          \* RunArgs of the call in flight
    handler,       \* the chain built by Bot.run: plugin indices, outermost first
    depth,         \* number of intercepts that are waiting in their next()
    messages,      \* internalRun: const messages
    next,          \* internalRun: let next
    finalNode,     \* internalRun: const finalNode
    ops,           \* next / send / transition calls made so far in this call
    ret,           \* the settled promise travelling outwards through the chain
    result,        \* what the caller of run last observed
    log,           \* history of the call in flight: who was invoked, in order
    heap,          \* the contents of the context objects the callers created
    parked,        \* the other run call, suspended at an await or not started
    turn,          \* the caller's side of a conversation: the node it feeds back
    other          \* the fields of a second Bot instance of the same program

vars == <<config, stateManager, serving, pc, args, handler, depth, messages,
          next, finalNode, ops, ret, result, log, heap, parked, turn, other>>

----------------------------------------------------------------------------
(* Bounds of the model *)

\* calls that the user code of one run call (intercepts, onReceive, onEnter)
\* makes to the callbacks the runtime hands it: next, send, transition
MaxOps == 2
\* distinct keys registered in the build phase
MaxNodes == 2

----------------------------------------------------------------------------
(* Strings *)

Dot == "."
Undefined == <<"undefined">>
EmptyString == <<>>

\* JavaScript truthiness of a value of type string | undefined
Truthy(s) == s # Undefined /\ s # EmptyString

\* a || b on such values
Or(a, b) == IF Truthy(a) THEN a ELSE b

\* String.prototype.includes for a one-character needle
Includes(s, c) == \E i \in 1..Len(s) : s[i] = c

\* s.split(c)[0]: the part of s before its first c, all of s when it has none
SplitFirst(s, c) ==
    IF Includes(s, c)
    THEN LET i == CHOOSE k \in 1..Len(s) :
                      /\ s[k] = c
                      /\ \A j \in 1..(k - 1) : s[j] # c
         IN SubSeq(s, 1, i - 1)
    ELSE s

FlowNames == { <<"a">>, <<"b">> }
LocalIds == { <<"x">>, <<"y">> }

\* the template `${flowName}.${id}`
FullId(flowName, id) == flowName \o <<Dot>> \o id

NodeAX == FullId(<<"a">>, <<"x">>)
NodeAY == FullId(<<"a">>, <<"y">>)
NodeBY == FullId(<<"b">>, <<"y">>)

\* keys the build phase may register
Keys == { NodeAX, NodeAY, NodeBY }

\* values of RunArgs.node: absent, empty, a node of each flow
NodeArgs == { Undefined, EmptyString, NodeAX, NodeBY }

\* values of RunArgs.message: absent, empty, a text
MessageArgs == { Undefined, EmptyString, <<"h">> }

\* what handlers pass to transition: a bare id and a qualified one
Targets == { <<"y">>, NodeBY }

\* what handlers pass to send
Texts == { "hi", "later" }

\* what handlers and plugins throw
Errors == { "boom", "bang" }

\* the objects callers pass as RunArgs.context, by identity
Objects == { 1, 2 }

----------------------------------------------------------------------------
(* NodeHandlers and the registry *)

\* NodeHandlers: end is true, false or left out; each handler is there or not
NodeHandlers ==
    [ end : {"true", "false", "undefined"}, onEnter : BOOLEAN, onReceive : BOOLEAN ]

\* the handlers objects the builders of the model pass to flow.node
Definitions ==
    { [ end |-> "undefined", onEnter |-> TRUE,  onReceive |-> TRUE  ],
      [ end |-> "true",      onEnter |-> TRUE,  onReceive |-> TRUE  ],
      [ end |-> "false",     onEnter |-> FALSE, onReceive |-> TRUE  ],
      [ end |-> "undefined", onEnter |-> TRUE,  onReceive |-> FALSE ] }

\* Map.get of a key that was never set
NoNode == [ missing |-> TRUE ]

\* Get answering a node with both handlers for a key that was never set
GetOrDefault(sm, key) ==
    IF key \in DOMAIN sm
    THEN sm[key]
    ELSE [ end |-> "undefined", onEnter |-> TRUE, onReceive |-> TRUE ]

Get(sm, key) == IF key \in DOMAIN sm THEN sm[key] ELSE NoNode

\* node?.onReceive, node?.onEnter, node?.end
HasOnReceive(n) == n # NoNode /\ n.onReceive
HasOnEnter(n) == n # NoNode /\ n.onEnter
EndOf(n) == IF n = NoNode THEN "undefined" ELSE n.end

\* MapSet that keeps no entry but the one it is given
MapSetAlone(sm, key, value) == [ k \in {key} |-> value ]

\* Map.set
MapSet(sm, key, value) ==
    [ k \in (DOMAIN sm) \cup {key} |-> IF k = key THEN value ELSE sm[k] ]

EmptyMap == [ k \in {} |-> NoNode ]

----------------------------------------------------------------------------
(* Bot.run: the plugin chain *)

\* BotPlugin: intercept is there or not
WithIntercept == [ intercept |-> TRUE ]
NoIntercept == [ intercept |-> FALSE ]

\* BotConfig.plugins left out
NoPlugins == << [ missing |-> TRUE ] >>

\* the values of BotConfig.plugins the model constructs bots with
PluginLists ==
    { NoPlugins,
      <<>>,
      << WithIntercept >>,
      << WithIntercept, WithIntercept >>,
      << NoIntercept, WithIntercept >>,
      << WithIntercept, NoIntercept, WithIntercept >> }

\* this.config.plugins || []
PluginsOf(cfg) == IF cfg.plugins = NoPlugins THEN <<>> ELSE cfg.plugins

\* Reversed without the reversal
NotReversed(n) == [ i \in 1..n |-> i ]

\* [...plugins].reverse(), as the indices of the copy
Reversed(n) == [ i \in 1..n |-> n + 1 - i ]

\* WrapAll without the test of plugin?.intercept: every entry wraps the handler
RECURSIVE WrapAllUnguarded(_, _, _)
WrapAllUnguarded(plugins, order, h) ==
    IF order = <<>> THEN h
    ELSE WrapAllUnguarded(plugins, Tail(order), <<Head(order)>> \o h)

\* The for loop of Bot.run over the reversed copy: each plugin with an
\* intercept wraps the handler built so far.  A handler is the sequence of
\* the indices of the plugins it calls, outermost first; the empty sequence
\* is () => this.internalRun(args).
RECURSIVE WrapAll(_, _, _)
WrapAll(plugins, order, h) ==
    IF order = <<>> THEN h
    ELSE LET i == Head(order)
         IN WrapAll(plugins, Tail(order),
                    IF plugins[i].intercept THEN <<i>> \o h ELSE h)

\* BuildHandler looping over the plugins in declaration order
BuildHandlerInDeclarationOrder(plugins) ==
    WrapAll(plugins, [ i \in 1..Len(plugins) |-> i ], <<>>)

BuildHandler(plugins) == WrapAll(plugins, Reversed(Len(plugins)), <<>>)

\* the response the p-th plugin makes up itself when it does not pass on the
\* one it got from next()
PluginText(p) == <<"denied1", "denied2", "denied3", "denied4">>[p]
PluginResponse(p) == [ messages |-> <<PluginText(p)>>, next |-> Undefined, done |-> "true" ]

Resolved(v) == [ kind |-> "resolved", value |-> v ]
Rejected(e) == [ kind |-> "rejected", error |-> e ]
Pending == [ kind |-> "pending" ]

----------------------------------------------------------------------------
(* Bot.internalRun: the locals *)

\* const isFirstRun = !args.node
isFirstRun(a) == ~Truthy(a.node)

\* const currentNodeId = args.node || this.config.defaultStartNode
currentNodeId(a, cfg) == Or(a.node, cfg.defaultStartNode)

\* send with unshift in place of push
sendFront(msgs, message) == <<message>> \o msgs

\* const send = (message) => messages.push(message)
send(msgs, message) == Append(msgs, message)

\* transition without the includes(".") test
transitionAlwaysPrefixes(current, nodeId) ==
    SplitFirst(current, Dot) \o <<Dot>> \o nodeId

\* const transition = (nodeId) => { ... }: the new value of next
transition(current, nodeId) ==
    LET currentFlowName == SplitFirst(current, Dot)
    IN IF Includes(nodeId, Dot) THEN nodeId ELSE currentFlowName \o <<Dot>> \o nodeId

\* if (args.message && node?.onReceive)
ShouldReceive(a, node) == Truthy(a.message) /\ HasOnReceive(node)

\* ShouldEnter without the test isFirstRun || next
ShouldEnterAlways(a, nx, fn) == HasOnEnter(fn)

\* if (isFirstRun || next) { if (finalNode?.onEnter) ... }
ShouldEnter(a, nx, fn) == (isFirstRun(a) \/ Truthy(nx)) /\ HasOnEnter(fn)

\* Escapes with the exception swallowed and what was gathered so far returned
EscapesSwallowed(e, msgs, nx) ==
    Resolved([ messages |-> msgs, next |-> nx, done |-> "undefined" ])

\* an exception leaving an awaited handler: internalRun has no try / catch,
\* so its promise rejects with the exception and the locals are dropped
Escapes(e, msgs, nx) == Rejected(e)

\* the context an intercept is handed: plugin.intercept(args.context, next)
PluginContext(a) == a.context

\* HandlerContext handing each handler another object, a copy
HandlerContextCopied(a) == CHOOSE o \in Objects : o # a.context

\* the context onReceive and onEnter are handed: context: args.context
HandlerContext(a) == a.context

\* FlowResponse with next left in place on a terminal node
FlowResponseKeepsNext(msgs, fn, nx, current) ==
    [ messages |-> msgs, next |-> Or(nx, current), done |-> EndOf(fn) ]

\* FlowResponse that answers the node the call was made on, whatever next holds
FlowResponseIgnoresNext(msgs, fn, nx, current) ==
    [ messages |-> msgs,
      next |-> IF EndOf(fn) = "true" THEN Undefined ELSE current,
      done |-> EndOf(fn) ]

\* the object internalRun returns
FlowResponse(msgs, fn, nx, current) ==
    [ messages |-> msgs,
      next |-> IF EndOf(fn) = "true" THEN Undefined ELSE Or(nx, current),
      done |-> EndOf(fn) ]

----------------------------------------------------------------------------
(* Construction and the build phase *)

\* what args holds while no call is in flight
NoArgs == [ node |-> Undefined, message |-> Undefined, context |-> 0 ]

\* what belongs to one run call: its arguments, the chain built for it, the
\* locals of its internalRun and what its caller has seen of it
Locals == <<pc, args, handler, depth, messages, next, finalNode, ops, ret, result, log>>

\* the locals of a call that was not made yet
NotStarted == << "idle", NoArgs, <<>>, 0, <<>>, Undefined, NoNode, 0, Pending, Pending, <<>> >>

\* new Bot({defaultStartNode: "b.y"}): a second instance, with a registry
\* of its own that starts empty
SecondBot ==
    [ config |-> [ defaultStartNode |-> NodeBY, plugins |-> NoPlugins ],
      stateManager |-> EmptyMap,
      serving |-> FALSE ]

\* new Bot(config): the registry starts empty, no call is in flight
Init ==
    /\ config \in [ defaultStartNode : { NodeAX }, plugins : PluginLists ]
    /\ stateManager = EmptyMap
    /\ serving = FALSE
    /\ pc = "idle"
    /\ args = NoArgs
    /\ handler = <<>>
    /\ depth = 0
    /\ messages = <<>>
    /\ next = Undefined
    /\ finalNode = NoNode
    /\ ops = 0
    /\ ret = Pending
    /\ result = Pending
    /\ log = <<>>
    /\ heap = [ o \in Objects |-> <<>> ]
    /\ parked = NotStarted
    /\ turn = [ node |-> Undefined, owed |-> FALSE, ended |-> FALSE ]
    /\ other = SecondBot

\* bot.flow(name, flow => flow.node(id, handlers)): one node call of a builder
FlowNode(name, id, handlers) ==
    /\ pc = "idle"
    /\ ~serving
    /\ \/ FullId(name, id) \in DOMAIN stateManager
       \/ Cardinality(DOMAIN stateManager) < MaxNodes
    /\ stateManager' = MapSet(stateManager, FullId(name, id), handlers)
    /\ UNCHANGED <<config, serving, pc, args, handler, depth, messages, next,
                   finalNode, ops, ret, result, log>>
    /\ UNCHANGED <<heap, parked, turn, other>>

----------------------------------------------------------------------------
(* Bot.run *)

\* a context object of the caller's that the other call does not hold
Fresh == CHOOSE o \in Objects : o # parked[2].context

\* Run reversing this.config.plugins itself and not a copy of it
RunReversingInPlace(node, message) ==
    /\ pc = "idle"
    /\ serving' = TRUE
    /\ args' = [ node |-> node, message |-> message, context |-> Fresh ]
    /\ handler' = BuildHandler(PluginsOf(config))
    /\ depth' = 0
    /\ pc' = "call"
    /\ messages' = <<>>
    /\ next' = Undefined
    /\ finalNode' = NoNode
    /\ ops' = 0
    /\ ret' = Pending
    /\ result' = Pending
    /\ log' = <<>>
    /\ config' = IF config.plugins = NoPlugins THEN config
                 ELSE [ config EXCEPT !.plugins =
                          [ i \in 1..Len(@) |-> @[Len(@) + 1 - i] ] ]
    /\ UNCHANGED stateManager
    /\ UNCHANGED <<heap, parked, turn, other>>

\* bot.run(args) up to the call of handler(): the chain is built
Run(node, message) ==
    /\ pc = "idle"
    /\ serving' = TRUE
    /\ args' = [ node |-> node, message |-> message, context |-> Fresh ]
    /\ handler' = BuildHandler(PluginsOf(config))
    /\ depth' = 0
    /\ pc' = "call"
    /\ messages' = <<>>
    /\ next' = Undefined
    /\ finalNode' = NoNode
    /\ ops' = 0
    /\ ret' = Pending
    /\ result' = Pending
    /\ log' = <<>>
    /\ UNCHANGED <<config, stateManager>>
    /\ UNCHANGED <<heap, parked, turn, other>>

\* the plugin whose intercept the next call of the chain invokes
Callee == handler[depth + 1]
\* the plugin whose next() the travelling promise settles
Awaiter == handler[depth]

\* entries of the log: an intercept was invoked, it called next(), it settled
\* (how: it passed on what next() settled with, returned a response of its
\* own, or threw)
Intercepted(p) == [ ev |-> "intercept", plugin |-> p ]
CalledNext(p) == [ ev |-> "next", plugin |-> p ]
Exited(p, how, r) == [ ev |-> "exit", plugin |-> p, how |-> how, ret |-> r ]

\* an intercept is invoked and calls next()
PluginCallsNext ==
    /\ pc = "call"
    /\ depth < Len(handler)
    /\ ops < MaxOps
    /\ depth' = depth + 1
    /\ ops' = ops + 1
    /\ log' = log \o << Intercepted(Callee), CalledNext(Callee) >>
    /\ UNCHANGED <<config, stateManager, serving, pc, args, handler, messages,
                   next, finalNode, ret, result>>
    /\ UNCHANGED <<heap, parked, turn, other>>

\* an intercept is invoked and returns a response of its own without calling next()
PluginShortCircuits ==
    /\ pc = "call"
    /\ depth < Len(handler)
    /\ ret' = Resolved(PluginResponse(Callee))
    /\ pc' = "return"
    /\ log' = log \o << Intercepted(Callee), Exited(Callee, "own", ret') >>
    /\ UNCHANGED <<config, stateManager, serving, args, handler, depth, messages,
                   next, finalNode, ops, result>>
    /\ UNCHANGED <<heap, parked, turn, other>>

\* an intercept is invoked and throws before calling next()
PluginThrowsBefore(e) ==
    /\ pc = "call"
    /\ depth < Len(handler)
    /\ ret' = Rejected(e)
    /\ pc' = "return"
    /\ log' = log \o << Intercepted(Callee), Exited(Callee, "threw", ret') >>
    /\ UNCHANGED <<config, stateManager, serving, args, handler, depth, messages,
                   next, finalNode, ops, result>>
    /\ UNCHANGED <<heap, parked, turn, other>>

\* what an intercept does once its next() has settled: r is what it settles with
PluginSettles(how, r) ==
    /\ pc = "return"
    /\ depth > 0
    /\ ret' = r
    /\ depth' = depth - 1
    /\ log' = Append(log, Exited(Awaiter, how, r))
    /\ UNCHANGED <<config, stateManager, serving, pc, args, handler, messages,
                   next, finalNode, ops, result>>
    /\ UNCHANGED <<heap, parked, turn, other>>

\* return await next(), a rejection of next() not being caught
PluginPassesOn == PluginSettles("passed", ret)

\* next() resolved or was caught, and the intercept returns a response of its own
PluginReplaces == PluginSettles("own", Resolved(PluginResponse(Awaiter)))

\* next() resolved and the intercept throws afterwards
PluginThrowsAfter(e) ==
    /\ ret.kind = "resolved"
    /\ PluginSettles("threw", Rejected(e))

\* the outermost promise has settled and nothing is left of the call
Settling == pc = "return" /\ depth = 0

\* return handler(): the caller of run observes the outermost promise; the
\* locals of the call are gone
RunReturns ==
    /\ Settling
    /\ result' = ret
    /\ pc' = "idle"
    /\ args' = NoArgs
    /\ handler' = <<>>
    /\ messages' = <<>>
    /\ next' = Undefined
    /\ finalNode' = NoNode
    /\ ops' = 0
    /\ ret' = Pending
    /\ log' = <<>>
    /\ UNCHANGED <<config, stateManager, serving, depth, parked, other>>

\* the same for a caller that keeps no conversation and whose context
\* object is left as it is
RunSettles == RunReturns /\ UNCHANGED <<heap, turn>>

----------------------------------------------------------------------------
(* Bot.internalRun *)

inHandler == pc \in { "onReceive", "onEnter" }

Started == [ ev |-> "internalRun" ]
Invoked(h, id) == [ ev |-> h, node |-> id ]
Completed(h) == [ ev |-> "completed", by |-> h ]
Sent(h, text) == [ ev |-> "send", by |-> h, text |-> text ]
Transitioned(h, target, to) == [ ev |-> "transition", by |-> h, target |-> target, to |-> to ]
Threw(h, e) == [ ev |-> "throw", by |-> h, error |-> e ]

\* the key of the second lookup: next || currentNodeId
finalNodeId(nx, current) == Or(nx, current)

\* Returns leaving the promise of internalRun pending for ever
ReturnsNothing(msgs, fn, nx, lg) ==
    /\ ret' = ret
    /\ pc' = "pending"
    /\ log' = lg

\* return { messages, next, done }: the promise of internalRun resolves
Returns(msgs, fn, nx, lg) ==
    /\ ret' = Resolved(FlowResponse(msgs, fn, nx, currentNodeId(args, config)))
    /\ pc' = "return"
    /\ log' = lg

\* internalRun from the second lookup on: onEnter is invoked, or the response
\* is returned at once
AfterReceive(msgs, nx, lg) ==
    LET current == currentNodeId(args, config)
        fn == Get(stateManager, finalNodeId(nx, current))
    IN /\ finalNode' = fn
       /\ messages' = msgs
       /\ next' = nx
       /\ IF ShouldEnter(args, nx, fn)
          THEN /\ pc' = "onEnter"
               /\ log' = Append(lg, Invoked("onEnter", finalNodeId(nx, current)))
               /\ ret' = ret
          ELSE Returns(msgs, fn, nx, lg)

\* the innermost handler calls internalRun(args): the locals are set up and
\* onReceive is invoked, or skipped
InternalRunBegins ==
    /\ pc = "call"
    /\ depth = Len(handler)
    /\ LET current == currentNodeId(args, config)
           node == Get(stateManager, current)
       IN IF ShouldReceive(args, node)
          THEN /\ pc' = "onReceive"
               /\ messages' = <<>>
               /\ next' = Undefined
               /\ log' = log \o << Started, Invoked("onReceive", current) >>
               /\ UNCHANGED <<finalNode, ret>>
          ELSE AfterReceive(<<>>, Undefined, Append(log, Started))
    /\ UNCHANGED <<config, stateManager, serving, args, handler, depth, ops, result>>
    /\ UNCHANGED <<heap, parked, turn, other>>

\* a handler calls send(text)
HandlerSends(text) ==
    /\ inHandler
    /\ ops < MaxOps
    /\ messages' = send(messages, text)
    /\ ops' = ops + 1
    /\ log' = Append(log, Sent(pc, text))
    /\ UNCHANGED <<config, stateManager, serving, pc, args, handler, depth, next,
                   finalNode, ret, result>>
    /\ UNCHANGED <<heap, parked, turn, other>>

\* HandlerTransitions that keeps the target of the first call
HandlerTransitionsKeepFirst(target) ==
    /\ inHandler
    /\ ops < MaxOps
    /\ next' = IF next = Undefined
               THEN transition(currentNodeId(args, config), target)
               ELSE next
    /\ ops' = ops + 1
    /\ log' = Append(log, Transitioned(pc, target, transition(currentNodeId(args, config), target)))
    /\ UNCHANGED <<config, stateManager, serving, pc, args, handler, depth, messages,
                   finalNode, ret, result>>
    /\ UNCHANGED <<heap, parked, turn, other>>

\* a handler calls transition(target)
HandlerTransitions(target) ==
    /\ inHandler
    /\ ops < MaxOps
    /\ next' = transition(currentNodeId(args, config), target)
    /\ ops' = ops + 1
    /\ log' = Append(log, Transitioned(pc, target, next'))
    /\ UNCHANGED <<config, stateManager, serving, pc, args, handler, depth, messages,
                   finalNode, ret, result>>
    /\ UNCHANGED <<heap, parked, turn, other>>

\* await node.onReceive(...) completes
OnReceiveReturns ==
    /\ pc = "onReceive"
    /\ AfterReceive(messages, next, Append(log, Completed("onReceive")))
    /\ UNCHANGED <<config, stateManager, serving, args, handler, depth, ops, result>>
    /\ UNCHANGED <<heap, parked, turn, other>>

\* OnEnterReturns that looks next up again and enters the node onEnter moved
\* to
OnEnterReturnsChained ==
    /\ pc = "onEnter"
    /\ LET lg == Append(log, Completed("onEnter"))
           moved == log[Len(log)].ev = "transition" /\ log[Len(log)].to # log[Len(log) - 1].node
       IN IF moved
          THEN AfterReceive(messages, next, lg)
          ELSE Returns(messages, finalNode, next, lg) /\ UNCHANGED <<messages, next, finalNode>>
    /\ UNCHANGED <<config, stateManager, serving, args, handler, depth, ops, result>>
    /\ UNCHANGED <<heap, parked, turn, other>>

\* await finalNode.onEnter(...) completes
OnEnterReturns ==
    /\ pc = "onEnter"
    /\ Returns(messages, finalNode, next, Append(log, Completed("onEnter")))
    /\ UNCHANGED <<config, stateManager, serving, args, handler, depth, messages,
                   next, finalNode, ops, result>>
    /\ UNCHANGED <<heap, parked, turn, other>>

\* HandlerThrows with the writes of the call to the context undone
HandlerThrowsRollingBack(e) ==
    /\ inHandler
    /\ ret' = Escapes(e, messages, next)
    /\ pc' = "return"
    /\ log' = Append(log, Threw(pc, e))
    /\ heap' = [ heap EXCEPT ![args.context] = <<>> ]
    /\ UNCHANGED <<config, stateManager, serving, args, handler, depth, messages,
                   next, finalNode, ops, result>>
    /\ UNCHANGED <<parked, turn, other>>

\* a handler throws (or the promise it returned rejects): internalRun rejects
HandlerThrows(e) ==
    /\ inHandler
    /\ ret' = Escapes(e, messages, next)
    /\ pc' = "return"
    /\ log' = Append(log, Threw(pc, e))
    /\ UNCHANGED <<config, stateManager, serving, args, handler, depth, messages,
                   next, finalNode, ops, result>>
    /\ UNCHANGED <<heap, parked, turn, other>>

----------------------------------------------------------------------------

Next ==
    \/ \E name \in FlowNames, id \in LocalIds, h \in Definitions :
          FullId(name, id) \in Keys /\ FlowNode(name, id, h)
    \/ \E node \in NodeArgs, message \in MessageArgs : Run(node, message)
    \/ PluginCallsNext
    \/ PluginShortCircuits
    \/ \E e \in Errors : PluginThrowsBefore(e)
    \/ PluginPassesOn
    \/ PluginReplaces
    \/ \E e \in Errors : PluginThrowsAfter(e)
    \/ RunSettles
    \/ InternalRunBegins
    \/ \E text \in Texts : HandlerSends(text)
    \/ \E target \in Targets : HandlerTransitions(target)
    \/ OnReceiveReturns
    \/ OnEnterReturns
    \/ \E e \in Errors : HandlerThrows(e)

Spec == Init /\ [][Next]_vars

----------------------------------------------------------------------------
(* Reading the log *)

Max(S) == CHOOSE x \in S : \A y \in S : y <= x

At(kind) == { i \in 1..Len(log) : log[i].ev = kind }
TransitionsBy(h) == { i \in At("transition") : log[i].by = h }

\* texts of the send calls of handler h, in the order of the calls
SendsBy(h) ==
    LET s == SelectSeq(log, LAMBDA e : e.ev = "send" /\ e.by = h)
    IN [ i \in 1..Len(s) |-> s[i].text ]

\* texts of all send calls, in the order of the calls
AllSends ==
    LET s == SelectSeq(log, LAMBDA e : e.ev = "send")
    IN [ i \in 1..Len(s) |-> s[i].text ]

\* the promise of internalRun has settled and no intercept has seen it yet
EngineSettled == pc = "return" /\ depth = Len(handler) /\ At("internalRun") # {}
EngineReturned == EngineSettled /\ ret.kind = "resolved"

\* the node the call is made on: the one the caller names, else the start node
Current ==
    IF args.node = Undefined \/ args.node = EmptyString
    THEN config.defaultStartNode
    ELSE args.node

\* the node the call ends on: the last target onReceive set, else Current
EndsOn ==
    IF TransitionsBy("onReceive") = {}
    THEN Current
    ELSE log[Max(TransitionsBy("onReceive"))].to

Registered(id) == id \in DOMAIN stateManager
Terminal(id) == Registered(id) /\ stateManager[id].end = "true"

----------------------------------------------------------------------------
(* Claims about the response of internalRun *)

\* C1: a run that ends on a node registered with end = true answers
\* done = true and no next, whether or not transition was called.
TerminalNodeEndsConversation ==
    (EngineReturned /\ Terminal(EndsOn))
        => (ret.value.done = "true" /\ ret.value.next = Undefined)

\* a terminal node was entered and its own onEnter called transition
TerminalNodeTransitioned ==
    /\ EngineReturned
    /\ Terminal(EndsOn)
    /\ TransitionsBy("onEnter") # {}
    /\ next # Undefined
    /\ ret.value.next = Undefined

\* C2: a run that does not end on a terminal node answers as next the id the
\* last transition call of the run produced, or the node the call was made on
\* when transition was never called.
NextIsLastTransition ==
    (EngineReturned /\ ~Terminal(EndsOn))
        => ret.value.next = IF At("transition") = {}
                            THEN Current
                            ELSE log[Max(At("transition"))].to

\* onReceive moved to one node and the onEnter of that node to another
NextFromOnEnterTransition ==
    /\ EngineReturned
    /\ ~Terminal(EndsOn)
    /\ TransitionsBy("onReceive") # {}
    /\ TransitionsBy("onEnter") # {}
    /\ EndsOn = NodeBY
    /\ ret.value.next = NodeAY

\* C3: done is true exactly when next is absent, exactly when the node the
\* run ends on is registered with end = true; otherwise done is false and
\* next is a node id.
DoneIffNextAbsent ==
    EngineReturned =>
        /\ (ret.value.done = "true") <=> (ret.value.next = Undefined)
        /\ (ret.value.done = "true") <=> Terminal(EndsOn)
        /\ ~Terminal(EndsOn) => (ret.value.done = "false" /\ ret.value.next # Undefined)

\* C4: a run call without a node invokes the onEnter of the default start
\* node when it has one, whatever the message and whatever onReceive does.
FirstRunEntersStartNode ==
    (EngineReturned /\ args.node = Undefined
                    /\ HasOnEnter(Get(stateManager, config.defaultStartNode)))
        => \E i \in At("onEnter") : log[i].node = config.defaultStartNode

\* C5 as stated: with a node and a message and no transition from onReceive,
\* no onEnter is invoked, the response holds the messages of onReceive alone
\* and next is the node supplied.
NoTransitionKeepsNode ==
    (EngineReturned /\ Truthy(args.node) /\ Truthy(args.message)
                    /\ TransitionsBy("onReceive") = {})
        => /\ At("onEnter") = {}
           /\ ret.value.messages = SendsBy("onReceive")
           /\ ret.value.next = args.node

\* C5 as amended: the same for a non-empty node, next being that node unless
\* it is registered with end = true, and absent then.
NoTransitionNoEnter ==
    (EngineReturned /\ Truthy(args.node) /\ args.message # Undefined
                    /\ TransitionsBy("onReceive") = {})
        => /\ At("onEnter") = {}
           /\ ret.value.messages = SendsBy("onReceive")
           /\ ret.value.next = IF Terminal(args.node) THEN Undefined ELSE args.node

\* onReceive ran on a node that has an onEnter, sent a message and stayed
StayedOnNodeWithOnEnter ==
    /\ EngineReturned
    /\ Truthy(args.node)
    /\ At("onReceive") # {}
    /\ TransitionsBy("onReceive") = {}
    /\ HasOnEnter(Get(stateManager, args.node))
    /\ ret.value.messages = <<"hi">>

\* C6: the messages of the response are the texts of the send calls in the
\* order of the calls; onReceive sends before onEnter does and has completed
\* before onEnter is invoked.
MessagesInSendOrder ==
    /\ EngineReturned => ret.value.messages = AllSends
    /\ \A i, j \in At("send") :
          (log[i].by = "onEnter" /\ log[j].by = "onReceive") => j < i
    /\ \A i \in At("onReceive"), j \in At("onEnter") :
          \E k \in At("completed") : log[k].by = "onReceive" /\ i < k /\ k < j

\* both handlers fired and each sent a different text
BothHandlersSent ==
    /\ EngineReturned
    /\ SendsBy("onReceive") = <<"hi">>
    /\ SendsBy("onEnter") = <<"later">>
    /\ ret.value.messages = <<"hi", "later">>

\* the part of an id before its first separator
FlowSegment(id) ==
    LET n == CHOOSE m \in 0..Len(id) :
                 /\ \A j \in 1..m : id[j] # "."
                 /\ m < Len(id) => id[m + 1] = "."
    IN [ j \in 1..n |-> id[j] ]

\* C7: transition(target) sets next to target when target holds a separator
\* and to the flow segment of the current node, a separator and target when
\* it holds none; from "a.x" the bare target "y" gives "a.y".
TransitionResolvesTarget ==
    \A i \in At("transition") :
        LET e == log[i]
        IN /\ (\E j \in 1..Len(e.target) : e.target[j] = ".") => e.to = e.target
           /\ (\A j \in 1..Len(e.target) : e.target[j] # ".")
                 => e.to = FlowSegment(Current) \o <<".">> \o e.target
           /\ (Current = <<"a", ".", "x">> /\ e.target = <<"y">>)
                 => e.to = <<"a", ".", "y">>
           /\ i = Len(log) => next = e.to

\* a bare and a qualified target were resolved in one call on "a.x"
ResolvedBareAndQualified ==
    /\ Current = NodeAX
    /\ \E i, j \in At("transition") :
          /\ log[i].target = <<"y">> /\ log[i].to = NodeAY
          /\ log[j].target = NodeBY /\ log[j].to = NodeBY
          /\ j = Len(log) /\ next = NodeBY

----------------------------------------------------------------------------
(* Claims about the plugin chain *)

\* the plugins that have an intercept, in the order config.plugins lists them
Declared ==
    LET ps == IF config.plugins = NoPlugins THEN <<>> ELSE config.plugins
        idx == { i \in 1..Len(ps) : ps[i].intercept }
    IN [ k \in 1..Cardinality(idx) |->
           CHOOSE i \in idx : Cardinality({ j \in idx : j < i }) = k - 1 ]

\* the plugins whose intercept was invoked, and those whose intercept
\* settled, each in the order of the log
InterceptOrder ==
    LET s == SelectSeq(log, LAMBDA e : e.ev = "intercept")
    IN [ i \in 1..Len(s) |-> s[i].plugin ]
ExitOrder ==
    LET s == SelectSeq(log, LAMBDA e : e.ev = "exit")
    IN [ i \in 1..Len(s) |-> s[i].plugin ]

\* C8: the intercepts start in declaration order, internalRun starts only
\* after every one of them called next, they settle in the reverse order, and
\* what run settles with is what the first plugin with an intercept settled
\* with.
PluginsNestInDeclarationOrder ==
    LET declared == Declared
        started == InterceptOrder
        exited == ExitOrder
    IN /\ Len(started) <= Len(declared)
       /\ \A k \in 1..Len(started) : started[k] = declared[k]
       /\ \A i \in At("internalRun") : \A k \in 1..Len(declared) :
             \E j \in At("next") : j < i /\ log[j].plugin = declared[k]
       /\ Len(exited) <= Len(started)
       /\ \A k \in 1..Len(exited) :
             exited[k] = started[Len(started) - k + 1]
       /\ (Settling /\ declared # <<>>)
             => \E i \in At("exit") : log[i].plugin = declared[1] /\ ret = log[i].ret

\* two intercepts around a plugin without one wrapped a run of the engine
TwoPluginsWrappedTheEngine ==
    /\ Settling
    /\ config.plugins = << WithIntercept, NoIntercept, WithIntercept >>
    /\ InterceptOrder = <<1, 3>>
    /\ At("internalRun") # {}
    /\ ExitOrder = <<3, 1>>
    /\ ret.kind = "resolved"

\* the exits of the log that are a return without a call of next
ShortCircuits ==
    { i \in At("exit") :
        /\ log[i].how = "own"
        /\ \A j \in At("next") : log[j].plugin # log[i].plugin }

\* C9: when an intercept returns without calling next, no plugin declared
\* after it and no node handler is invoked in that run, and its own response
\* is what the plugin waiting for it sees, and what the caller sees when every
\* plugin before it passes it on.
ShortCircuitSkipsTheRest ==
    \A i \in ShortCircuits :
        LET p == log[i].plugin
        IN /\ \A j \in At("intercept") : log[j].plugin <= p
           /\ At("internalRun") = {} /\ At("onReceive") = {} /\ At("onEnter") = {}
           /\ log[i].ret = Resolved(PluginResponse(p))
           /\ i = Len(log)
                 => /\ pc = "return" /\ ret = Resolved(PluginResponse(p))
                    /\ depth > 0 => handler[depth] < p
           /\ (Settling /\ \A j \in At("exit") : j > i => log[j].how = "passed")
                 => ret = Resolved(PluginResponse(p))

\* the inner intercept returned at once and the outer one passed that on
InnerPluginShortCircuited ==
    /\ Settling
    /\ InterceptOrder = <<1, 3>>
    /\ \E i \in ShortCircuits : log[i].plugin = 3
    /\ \E j \in At("exit") : log[j].plugin = 1 /\ log[j].how = "passed"
    /\ ret = Resolved(PluginResponse(3))

\* the places of the log where something was thrown
Throws == At("throw") \cup { i \in At("exit") : log[i].how = "threw" }
ThrownAt(i) == IF log[i].ev = "throw" THEN log[i].error ELSE log[i].ret.error

\* C10: what a handler or an intercept throws, and no plugin around it
\* catches, is what run rejects with, no response being given; after a throw
\* of onReceive no onEnter is invoked.
ErrorsReachTheCaller ==
    /\ \A i \in At("throw") : log[i].by = "onReceive" => At("onEnter") = {}
    /\ LET throws == Throws
       IN throws # {} =>
             LET o == Max(throws)
             IN (\A j \in (o + 1)..Len(log) : log[j].ev = "exit" /\ log[j].how = "passed")
                   => /\ pc = "return"
                      /\ ret = Rejected(ThrownAt(o))
                      /\ ret.kind # "resolved"

\* onReceive threw under a plugin that did not catch, and run rejected
OnReceiveThrewThroughPlugin ==
    /\ Settling
    /\ \E i \in At("throw") :
          /\ log[i].by = "onReceive"
          /\ ret = Rejected(log[i].error)
          /\ \E j \in At("exit") : j > i /\ log[j].how = "passed"
    /\ HasOnEnter(Get(stateManager, Current))

----------------------------------------------------------------------------
(* Claims about ids the registry does not hold *)

\* C11: a call on a node id the registry does not hold invokes no handler,
\* throws nothing and answers no messages and that id as next; a transition
\* of onReceive to an id the registry does not hold is followed by no onEnter
\* and, onReceive not throwing, by a response whose next is the resolved id.
UnregisteredNodesAreSilent ==
    /\ ~Registered(Current) =>
          /\ At("onReceive") = {} /\ At("onEnter") = {} /\ At("throw") = {}
          /\ EngineSettled =>
                ret = Resolved([ messages |-> <<>>, next |-> Current,
                                 done |-> "undefined" ])
    /\ (TransitionsBy("onReceive") # {} /\ ~Registered(EndsOn)) =>
          /\ At("onEnter") = {}
          /\ (EngineSettled /\ At("throw") = {}) =>
                /\ ret.kind = "resolved"
                /\ ret.value.messages = SendsBy("onReceive")
                /\ ret.value.next = EndsOn

\* onReceive of a registered node moved to an id that was never registered
UnregisteredTargetReached ==
    /\ EngineReturned
    /\ Registered(Current)
    /\ TransitionsBy("onReceive") # {}
    /\ ~Registered(EndsOn)
    /\ EndsOn = NodeBY
    /\ ret.value.next = NodeBY
    /\ ret.value.messages = <<"hi">>

----------------------------------------------------------------------------
(* Scenarios: "a.x" stands for the start node, "a.y" for the node it moves to *)

\* a bot without plugins whose start node has both handlers and no end flag
StartNodeWithBothHandlers ==
    /\ config.plugins = NoPlugins
    /\ config.defaultStartNode = NodeAX
    /\ Registered(NodeAX)
    /\ stateManager[NodeAX] = [ end |-> "undefined", onEnter |-> TRUE, onReceive |-> TRUE ]

\* onReceive did nothing but call transition("y"), once
OnReceiveOnlyMovedToY ==
    /\ At("onReceive") # {}
    /\ SendsBy("onReceive") = <<>>
    /\ Cardinality(TransitionsBy("onReceive")) = 1
    /\ \A i \in TransitionsBy("onReceive") : log[i].target = <<"y">>

\* C12: with "a.x" (onEnter sends "hi", onReceive calls transition("y")) and
\* "a.y" (end = true, onEnter sends "later"), a call without node and message
\* answers ["hi"], next "a.x", done false, and a call on "a.x" with a message
\* answers ["later"], no next, done true.
TwoCallScenario ==
    (/\ Settling /\ EngineReturned
     /\ StartNodeWithBothHandlers
     /\ Terminal(NodeAY) /\ stateManager[NodeAY].onEnter
     /\ TransitionsBy("onEnter") = {})
    => /\ (/\ args.node = Undefined /\ args.message = Undefined
           /\ SendsBy("onEnter") = <<"hi">>)
          => ret.value = [ messages |-> <<"hi">>, next |-> NodeAX, done |-> "false" ]
       /\ (/\ args.node = NodeAX /\ args.message = <<"h">>
           /\ OnReceiveOnlyMovedToY
           /\ SendsBy("onEnter") = <<"later">>)
          => ret.value = [ messages |-> <<"later">>, next |-> Undefined, done |-> "true" ]

\* C13: the first call of the quick start, run with a message and no node on
\* a start node whose onEnter sends "hi" and whose onReceive always calls
\* transition, answers ["hi"], next "a.x" and done false.
QuickStartFirstCall ==
    (/\ Settling /\ EngineReturned
     /\ StartNodeWithBothHandlers
     /\ Registered(NodeAY)
     /\ stateManager[NodeAY] = [ end |-> "undefined", onEnter |-> TRUE, onReceive |-> TRUE ]
     /\ args.node = Undefined /\ args.message = <<"h">>
     /\ OnReceiveOnlyMovedToY
     /\ TransitionsBy("onEnter") = {}
     /\ \A i \in At("onEnter") :
           SendsBy("onEnter") = IF log[i].node = NodeAX THEN <<"hi">> ELSE <<"later">>)
    => ret.value = [ messages |-> <<"hi">>, next |-> NodeAX, done |-> "false" ]

----------------------------------------------------------------------------
(* Claims about what the documentation of the handlers promises *)

\* C14: a call made on a node registered with end = true answers done = true
\* and no next and invokes the onEnter of no other node, whatever the message
\* and the handlers of that node.
TerminalNodeAllowsNoTransition ==
    (EngineReturned /\ Truthy(args.node) /\ Terminal(args.node))
        => /\ ret.value.done = "true"
           /\ ret.value.next = Undefined
           /\ \A i \in At("onEnter") : log[i].node = args.node

----------------------------------------------------------------------------
(* A conversation: the caller feeds the next of each response back as node *)

\* a bot without plugins, so that what run resolves with is what internalRun
\* returned
InitConversation == Init /\ config.plugins = NoPlugins

\* node: response.next of the last call; owed: that node became the current
\* one through a transition call and its onEnter was not invoked since;
\* ended: the last response had no next, the conversation was over
AfterResponse(r) ==
    IF r.next = Undefined
    THEN [ node |-> Undefined, owed |-> FALSE, ended |-> TRUE ]
    ELSE [ node |-> r.next,
           owed |-> IF At("transition") # {}
                    THEN \A i \in At("onEnter") : log[i].node # r.next
                    ELSE Truthy(args.node) /\ turn.owed,
           ended |-> FALSE ]

\* the caller of run takes the response; after a rejection it keeps the node
\* it had
CallerFeedsBack ==
    /\ RunReturns
    /\ turn' = IF ret.kind = "resolved" THEN AfterResponse(ret.value) ELSE turn
    /\ UNCHANGED heap

NextConversation ==
    \/ \E name \in FlowNames, id \in LocalIds, h \in Definitions :
          FullId(name, id) \in Keys /\ FlowNode(name, id, h)
    \/ \E message \in MessageArgs : Run(turn.node, message)
    \/ InternalRunBegins
    \/ \E text \in Texts : HandlerSends(text)
    \/ \E target \in Targets : HandlerTransitions(target)
    \/ OnReceiveReturns
    \/ OnEnterReturns
    \/ \E e \in Errors : HandlerThrows(e)
    \/ CallerFeedsBack

SpecConversation == InitConversation /\ [][NextConversation]_vars

\* C15: in a conversation a registered node that became the current node
\* through a transition call, from onReceive or from onEnter, has its onEnter
\* invoked before its onReceive is.
EnteredBeforeReceiving ==
    \A i \in At("onReceive") :
        ~(turn.owed /\ log[i].node = turn.node
                    /\ HasOnEnter(Get(stateManager, log[i].node)))

\* C28: in a conversation whose last response was done with no next, the
\* following run is a first run: it starts at config.defaultStartNode, so
\* that only that node receives, and it invokes the onEnter of that node
\* (when it defines one), after its onReceive when a message was supplied.
EndedConversationRestarts ==
    (turn.ended /\ EngineReturned) =>
        /\ isFirstRun(args)
        /\ Current = config.defaultStartNode
        /\ \A j \in At("onReceive") : log[j].node = config.defaultStartNode
        /\ HasOnEnter(Get(stateManager, config.defaultStartNode)) =>
              \E i \in At("onEnter") :
                  /\ log[i].node = config.defaultStartNode
                  /\ \A j \in At("onReceive") : j < i

----------------------------------------------------------------------------
(* Claims about the flow a bare id is resolved in *)

\* the node whose handler made the i-th entry of the log
Running(i) == log[Max({ j \in At(log[i].by) : j < i })].node

\* C16: a target without a separator that a handler passes to transition
\* resolves to a node of the flow of the node whose handler is running, for
\* onReceive and for onEnter, also when that onEnter was reached from a node
\* of another flow.
BareIdStaysInRunningFlow ==
    \A i \in At("transition") :
        ~Includes(log[i].target, Dot)
            => FlowSegment(log[i].to) = FlowSegment(Running(i))

----------------------------------------------------------------------------
(* The context object: user code writes into the object it is handed *)

Mutated(by) == [ ev |-> "mutate", by |-> by ]

\* an intercept is running: it was invoked and has not called next, or its
\* next has settled
inPlugin ==
    \/ pc = "call" /\ depth < Len(handler)
    \/ pc = "return" /\ depth > 0

\* user code appends its mark to the object o
Mutates(o, by) ==
    /\ ops < MaxOps
    /\ heap' = [ heap EXCEPT ![o] = Append(@, by) ]
    /\ ops' = ops + 1
    /\ log' = Append(log, Mutated(by))
    /\ UNCHANGED <<config, stateManager, serving, pc, args, handler, depth, messages,
                   next, finalNode, ret, result, parked, turn, other>>

\* an intercept writes into the context it was handed
PluginMutates == inPlugin /\ Mutates(PluginContext(args), "plugin")

\* onReceive or onEnter writes into the context it was handed
HandlerMutates == inHandler /\ Mutates(HandlerContext(args), pc)

\* the caller has looked at its context object and lets go of it; the next
\* call is made with a new one
CallerDropsContext ==
    /\ RunReturns
    /\ heap' = [ o \in Objects |-> <<>> ]
    /\ UNCHANGED turn

\* bots with at most one plugin, and nodes that have both handlers
InitContext == Init /\ config.plugins \in { NoPlugins, << WithIntercept >> }

NextContext ==
    \/ \E name \in FlowNames, id \in LocalIds :
          /\ FullId(name, id) \in Keys
          /\ FlowNode(name, id, [ end |-> "undefined", onEnter |-> TRUE, onReceive |-> TRUE ])
    \/ \E node \in NodeArgs, message \in MessageArgs : Run(node, message)
    \/ PluginCallsNext
    \/ PluginShortCircuits
    \/ \E e \in Errors : PluginThrowsBefore(e)
    \/ PluginPassesOn
    \/ PluginReplaces
    \/ \E e \in Errors : PluginThrowsAfter(e)
    \/ PluginMutates
    \/ InternalRunBegins
    \/ \E text \in Texts : HandlerSends(text)
    \/ \E target \in Targets : HandlerTransitions(target)
    \/ HandlerMutates
    \/ OnReceiveReturns
    \/ OnEnterReturns
    \/ \E e \in Errors : HandlerThrows(e)
    \/ CallerDropsContext

SpecContext == InitContext /\ [][NextContext]_vars

\* the marks written during the call, in the order they were written
Written ==
    LET s == SelectSeq(log, LAMBDA e : e.ev = "mutate")
    IN [ i \in 1..Len(s) |-> s[i].by ]

\* C17: during a call the object the caller passed holds exactly what the
\* plugins and handlers of the call wrote, in that order, and it is the object
\* every intercept, onReceive and onEnter is handed: each of them, and the
\* caller when run settles, finds what was written before; no other object
\* is written to.
ContextIsShared ==
    pc # "idle" =>
        /\ heap[args.context] = Written
        /\ \A o \in Objects \ { args.context } : heap[o] = <<>>
        /\ inPlugin => heap[PluginContext(args)] = Written
        /\ inHandler => heap[HandlerContext(args)] = Written

\* onEnter is handed the object the plugin wrote into before it called next
OnEnterSeesPluginMark ==
    /\ pc = "onEnter"
    /\ depth = 1
    /\ heap[HandlerContext(args)] = << "plugin" >>

\* C29: when run rejects, because a handler threw or because an intercept
\* threw before or after its next(), the object the caller passed holds
\* everything the plugins and handlers of the call wrote before the throw,
\* and the rejection carries the error alone: none of the messages sent
\* during the call reaches the caller.
RejectionKeepsMutations ==
    (Settling /\ ret.kind = "rejected") =>
        /\ heap[args.context] = Written
        /\ DOMAIN ret = { "kind", "error" }
        /\ ret.error \in Errors

\* onEnter threw after onReceive had written to the context and sent a message
RejectedAfterOnReceiveWrote ==
    /\ Settling /\ ret.kind = "rejected"
    /\ \E k \in At("throw") : log[k].by = "onEnter"
    /\ Written = << "onReceive" >>
    /\ AllSends # <<>>

----------------------------------------------------------------------------
(* Two run calls that overlap: while one waits at an await the other runs *)

\* the call in flight waits for user code (a handler or an intercept it
\* awaits) or for the continuation of a settled promise, or there is none
Suspended == inHandler \/ inPlugin \/ Settling \/ pc = "idle"

\* Switch with messages held by the bot and not by the call
SwitchSharingMessages ==
    /\ Suspended
    /\ pc # "idle" \/ parked[1] # "idle"
    /\ parked' = Locals
    /\ pc' = parked[1] /\ args' = parked[2] /\ handler' = parked[3]
    /\ depth' = parked[4] /\ next' = parked[6]
    /\ finalNode' = parked[7] /\ ops' = parked[8] /\ ret' = parked[9]
    /\ result' = parked[10] /\ log' = parked[11]
    /\ UNCHANGED <<config, stateManager, serving, heap, turn, other, messages>>

\* the event loop leaves the call in flight at its await and goes on with
\* the other call: each call has its own arguments, chain and internalRun
\* locals; the bot's fields are the same for both
Switch ==
    /\ Suspended
    /\ pc # "idle" \/ parked[1] # "idle"
    /\ parked' = Locals
    /\ pc' = parked[1] /\ args' = parked[2] /\ handler' = parked[3]
    /\ depth' = parked[4] /\ messages' = parked[5] /\ next' = parked[6]
    /\ finalNode' = parked[7] /\ ops' = parked[8] /\ ret' = parked[9]
    /\ result' = parked[10] /\ log' = parked[11]
    /\ UNCHANGED <<config, stateManager, serving, heap, turn, other>>

\* what the handlers of a call pass to send and to transition: each of the
\* two calls has a text and a target of its own
TextOf(a) == IF a.context = 1 THEN "hi" ELSE "later"
TargetOf(a) == IF a.context = 1 THEN <<"y">> ELSE NodeBY

\* bots with at most one plugin
InitOverlap == Init /\ config.plugins \in { NoPlugins, << WithIntercept >> }

NextOverlap ==
    \/ \E id \in LocalIds :
          FlowNode(<<"a">>, id, [ end |-> "undefined", onEnter |-> TRUE, onReceive |-> TRUE ])
    \/ \E node \in { Undefined, NodeAX }, message \in { Undefined, <<"h">> } :
          Run(node, message)
    \/ PluginCallsNext
    \/ PluginShortCircuits
    \/ PluginPassesOn
    \/ PluginReplaces
    \/ RunSettles
    \/ InternalRunBegins
    \/ HandlerSends(TextOf(args))
    \/ HandlerTransitions(TargetOf(args))
    \/ OnReceiveReturns
    \/ OnEnterReturns
    \/ HandlerThrows("boom")
    \/ Switch

SpecOverlap == InitOverlap /\ [][NextOverlap]_vars

\* the response internalRun gives when nothing but the call's own handlers
\* act between its start and its return
Alone ==
    LET fn == Get(stateManager, EndsOn)
        last == IF At("transition") = {} THEN Current ELSE log[Max(At("transition"))].to
    IN [ messages |-> AllSends,
         next |-> IF EndOf(fn) = "true" THEN Undefined ELSE last,
         done |-> EndOf(fn) ]

\* C18: of two calls that overlap, each answers what its own handlers sent
\* and the target its own handlers set, as it does alone; the call that waits
\* keeps what it held.
OverlappingRunsAreIndependent ==
    /\ EngineReturned => ret.value = Alone
    /\ inHandler => messages = AllSends
    /\ parked[1] \in { "onReceive", "onEnter" } =>
          LET s == SelectSeq(parked[11], LAMBDA e : e.ev = "send")
          IN parked[5] = [ i \in 1..Len(s) |-> s[i].text ]

\* a call returned its own message while the other, started before that,
\* waits in a handler with a message and a target of its own
ReturnedWhileOtherWaits ==
    /\ EngineReturned
    /\ ret.value.messages = << TextOf(args) >>
    /\ parked[1] \in { "onReceive", "onEnter" }
    /\ parked[5] # <<>> /\ parked[5] # messages
    /\ parked[6] # Undefined /\ parked[6] # ret.value.next

----------------------------------------------------------------------------
(* Claims about the registry *)

\* C19: every key of the registry is a flow name, a separator and a node id;
\* a node call under flow name with id and handlers makes the key name.id
\* hold those handlers, whether or not it held others before, and changes no
\* other key; nothing but a node call changes the registry.
RegistryLastWriteWins ==
    [][ /\ \A k \in DOMAIN stateManager' :
              \E name \in FlowNames, id \in LocalIds : k = name \o <<".">> \o id
        /\ \A name \in FlowNames, id \in LocalIds, h \in Definitions :
              FlowNode(name, id, h) =>
                  LET key == name \o <<".">> \o id
                  IN /\ DOMAIN stateManager' = DOMAIN stateManager \cup {key}
                     /\ stateManager'[key] = h
                     /\ \A k \in DOMAIN stateManager \ {key} :
                           stateManager'[k] = stateManager[k]
        /\ stateManager' # stateManager =>
              \E name \in FlowNames, id \in LocalIds, h \in Definitions :
                  FlowNode(name, id, h)
      ]_vars

\* two flows hold a node each, with different handlers
TwoFlowsRegistered ==
    /\ ~serving
    /\ DOMAIN stateManager = { NodeAX, NodeBY }
    /\ stateManager[NodeAX].end = "true"
    /\ stateManager[NodeBY].end = "false"

----------------------------------------------------------------------------
(* Claims about the single pass of internalRun *)

\* C20: one execution of internalRun invokes at most one onReceive, that of
\* the current node, and at most one onEnter, that of the node looked up
\* after onReceive; after a transition call of onEnter no handler is invoked
\* and nothing is looked up: the final node stays the one onEnter ran on,
\* done is read from it and next is the target of the call.
SinglePass ==
    LET received == At("onReceive")
        entered == At("onEnter")
    IN /\ Cardinality(received) <= 1
       /\ \A i \in received : log[i].node = Current
       /\ Cardinality(entered) <= 1
       /\ \A i \in entered :
             /\ log[i].node = EndsOn
             /\ \A j \in received : j < i
       /\ \A i \in TransitionsBy("onEnter") :
             /\ \A j \in received \cup entered : j < i
             /\ pc \in { "onEnter", "return" } => finalNode = Get(stateManager, EndsOn)
             /\ EngineReturned =>
                   /\ ret.value.done = EndOf(Get(stateManager, EndsOn))
                   /\ ~Terminal(EndsOn) =>
                         ret.value.next = log[Max(TransitionsBy("onEnter"))].to

\* onEnter moved to another registered node that has an onEnter, and the
\* call returned that node as next without entering it
OnEnterMovedOn ==
    /\ EngineReturned
    /\ \E i \in TransitionsBy("onEnter") :
          /\ log[i].to # EndsOn
          /\ HasOnEnter(Get(stateManager, log[i].to))
          /\ ret.value.next = log[i].to
    /\ Cardinality(At("onEnter")) = 1

----------------------------------------------------------------------------
(* Claims about onReceive and the message *)

\* C21: when a message is supplied, whatever string it is, and the current
\* node has an onReceive, onReceive is invoked exactly once and has completed
\* before the final node is looked up; when no message is supplied onReceive
\* is never invoked.
SuppliedMessageIsReceived ==
    /\ (At("internalRun") # {} /\ args.message # Undefined
                               /\ HasOnReceive(Get(stateManager, Current)))
          => /\ Cardinality(At("onReceive")) = 1
             /\ \A i \in At("onEnter") :
                   \E k \in At("completed") : log[k].by = "onReceive" /\ k < i
             /\ EngineReturned =>
                   \E k \in At("completed") : log[k].by = "onReceive"
    /\ args.message = Undefined => At("onReceive") = {}

\* C22: when onReceive calls transition more than once, the onEnter invoked
\* afterwards is that of the last target and of no earlier one, it is invoked
\* exactly when that target has one, done and the absence of next are those
\* of the last target, and the call resolves.
LastTransitionCounts ==
    Cardinality(TransitionsBy("onReceive")) >= 2 =>
        LET last == log[Max(TransitionsBy("onReceive"))].to
            fn == Get(stateManager, last)
        IN /\ \A i \in At("onEnter") : log[i].node = last
           /\ (pc \in { "onEnter", "return" } /\ \A i \in At("throw") : log[i].by # "onReceive")
                 => (At("onEnter") # {} <=> HasOnEnter(fn))
           /\ (EngineSettled /\ At("throw") = {})
                 => /\ ret.kind = "resolved"
                    /\ ret.value.done = EndOf(fn)
                    /\ ret.value.next = Undefined <=> EndOf(fn) = "true"

\* onReceive moved to one node and then to another, whose onEnter ran
MovedTwiceEnteredLast ==
    /\ EngineReturned
    /\ \E i, j \in TransitionsBy("onReceive") :
          i < j /\ log[i].to = NodeAY /\ log[j].to = NodeBY
    /\ \E i \in At("onEnter") : log[i].node = NodeBY
    /\ ret.value.next = NodeBY

----------------------------------------------------------------------------
(* Claims about plugin entries without an intercept, and about what run leaves alone *)

\* the configured list without the entries that have no intercept
Kept == SelectSeq(PluginsOf(config), LAMBDA p : p.intercept)

\* bots of every plugin list, and nodes that have both handlers
InitChain == Init

NextChain ==
    \/ \E name \in FlowNames, id \in LocalIds :
          /\ FullId(name, id) \in Keys
          /\ FlowNode(name, id, [ end |-> "undefined", onEnter |-> TRUE, onReceive |-> TRUE ])
    \/ \E node \in NodeArgs, message \in MessageArgs : Run(node, message)
    \/ PluginCallsNext
    \/ PluginShortCircuits
    \/ \E e \in Errors : PluginThrowsBefore(e)
    \/ PluginPassesOn
    \/ PluginReplaces
    \/ \E e \in Errors : PluginThrowsAfter(e)
    \/ InternalRunBegins
    \/ \E text \in Texts : HandlerSends(text)
    \/ \E target \in Targets : HandlerTransitions(target)
    \/ OnReceiveReturns
    \/ OnEnterReturns
    \/ \E e \in Errors : HandlerThrows(e)
    \/ RunSettles

SpecChain == InitChain /\ [][NextChain]_vars

\* C23: the chain run builds for a plugin list is the chain it builds for the
\* list without the entries that have no intercept, plugin for plugin; no
\* such entry is ever invoked; and with no plugin left run settles with what
\* internalRun settled with, no intercept having run.
NoInterceptIsNoOp ==
    /\ pc # "idle" =>
          LET chain == BuildHandler(Kept)
              declared == Declared
          IN /\ Len(handler) = Len(chain)
             /\ \A k \in 1..Len(chain) : handler[k] = declared[chain[k]]
    /\ \A i \in At("intercept") : PluginsOf(config)[log[i].plugin].intercept
    /\ (Settling /\ Kept = <<>>) =>
          /\ At("intercept") = {}
          /\ EngineSettled
          /\ ret.kind = "resolved" => ret.value = Alone
          /\ ret.kind = "rejected" => \E i \in At("throw") : ret.error = log[i].error

\* a list whose first entry has no intercept: the second entry alone wrapped
\* a run of the engine
SkippedEntryWithoutIntercept ==
    /\ Settling
    /\ config.plugins = << NoIntercept, WithIntercept >>
    /\ InterceptOrder = <<2>>
    /\ ExitOrder = <<2>>
    /\ At("internalRun") # {}
    /\ ret.kind = "resolved"

\* C24: no step of a run call, from the call of run to its settling, changes
\* the configuration (the plugin list and its order, defaultStartNode) or
\* the registry, and the chain of every call is the one of the plugins in the
\* order they were configured in.
RunLeavesBotUnchanged ==
    [][ /\ (pc # "idle" \/ pc' # "idle") =>
              (config' = config /\ stateManager' = stateManager)
        /\ pc' # "idle" =>
              /\ Len(handler') = Len(Declared')
              /\ \A k \in 1..Len(handler') : handler'[k] = Declared'[k]
      ]_vars

\* the engine has run under the chain of a bot with two different plugin
\* entries and a registered start node
EngineRanUnderConfiguredChain ==
    /\ pc = "return"
    /\ config.plugins = << NoIntercept, WithIntercept >>
    /\ Registered(NodeAX)
    /\ handler = <<2>>
    /\ \E i \in At("onEnter") : log[i].node = NodeAX

----------------------------------------------------------------------------
(* The Twilio plugin: a bot whose only plugin is twilioPlugin() *)

\* the document a MessagingResponse serialises to, token by token: the XML
\* declaration, the Response element and in it one Message element for each
\* call of t.message, in the order of the calls
XmlDeclaration == "<?xml version=\"1.0\" encoding=\"UTF-8\"?>"

RECURSIVE MessageElements(_)
MessageElements(msgs) ==
    IF msgs = <<>> THEN <<>>
    ELSE << "<Message>", Head(msgs), "</Message>" >> \o MessageElements(Tail(msgs))

\* TwiML with the Message elements in the reverse order
TwiMLReversed(msgs) ==
    << XmlDeclaration, "<Response>" >>
        \o MessageElements([ i \in 1..Len(msgs) |-> msgs[Len(msgs) + 1 - i] ])
        \o << "</Response>" >>

\* result.messages.forEach((m) => t.message(m)); t.toString()
TwiML(msgs) ==
    << XmlDeclaration, "<Response>" >> \o MessageElements(msgs) \o << "</Response>" >>

\* result.messages = [t.toString()]; return result
TwilioResult(r) == [ r EXCEPT !.messages = << TwiML(@) >> ]

InitTwilio == Init /\ config.plugins = << WithIntercept >>

\* the intercept creates the MessagingResponse and awaits next()
TwilioCallsNext ==
    /\ pc = "call"
    /\ depth < Len(handler)
    /\ depth' = depth + 1
    /\ log' = log \o << Intercepted(Callee), CalledNext(Callee) >>
    /\ UNCHANGED <<config, stateManager, serving, pc, args, handler, messages,
                   next, finalNode, ops, ret, result>>
    /\ UNCHANGED <<heap, parked, turn, other>>

\* next() resolved: the intercept returns the result with its messages replaced
TwilioFormats ==
    /\ ret.kind = "resolved"
    /\ PluginSettles("own", Resolved(TwilioResult(ret.value)))

\* next() rejected: await throws and the intercept rejects with the same error
TwilioRejects ==
    /\ ret.kind = "rejected"
    /\ PluginPassesOn

NextTwilio ==
    \/ \E name \in FlowNames, id \in LocalIds, h \in Definitions :
          FullId(name, id) \in Keys /\ FlowNode(name, id, h)
    \/ \E node \in NodeArgs, message \in MessageArgs : Run(node, message)
    \/ TwilioCallsNext
    \/ InternalRunBegins
    \/ \E text \in Texts : HandlerSends(text)
    \/ \E target \in Targets : HandlerTransitions(target)
    \/ OnReceiveReturns
    \/ OnEnterReturns
    \/ \E e \in Errors : HandlerThrows(e)
    \/ TwilioFormats
    \/ TwilioRejects
    \/ RunSettles

SpecTwilio == InitTwilio /\ [][NextTwilio]_vars

\* the texts of the Message elements of a document, in the order of the
\* document, when it is a Response of Message elements and nothing else
IsEnvelope(doc) ==
    /\ Len(doc) >= 3 /\ (Len(doc) % 3) = 0
    /\ doc[1] = XmlDeclaration /\ doc[2] = "<Response>" /\ doc[Len(doc)] = "</Response>"
    /\ \A i \in 1..((Len(doc) \div 3) - 1) :
          doc[3 * i] = "<Message>" /\ doc[3 * i + 2] = "</Message>"
TextsOf(doc) == [ i \in 1..((Len(doc) \div 3) - 1) |-> doc[3 * i + 1] ]

\* C25: the Twilio intercept calls next exactly once, and when next resolves
\* it returns the response of the engine with messages replaced by exactly
\* one envelope that holds the messages of the engine in their order, none
\* when there were none, and with next and done as the engine gave them.
TwilioWrapsMessages ==
    /\ Cardinality(At("next")) <= 1 /\ Cardinality(At("internalRun")) <= 1
    /\ Settling =>
          /\ Cardinality(At("next")) = 1 /\ Cardinality(At("internalRun")) = 1
          /\ ret.kind = "resolved" =>
                /\ Len(ret.value.messages) = 1
                /\ IsEnvelope(ret.value.messages[1])
                /\ TextsOf(ret.value.messages[1]) = AllSends
                /\ ret.value.next = Alone.next
                /\ ret.value.done = Alone.done
                /\ DOMAIN ret.value = { "messages", "next", "done" }

\* two messages of the engine came back as one envelope, in their order
TwoMessagesInOneEnvelope ==
    /\ Settling
    /\ ret.kind = "resolved"
    /\ AllSends = << "hi", "later" >>
    /\ ret.value.messages =
          << << XmlDeclaration, "<Response>", "<Message>", "hi", "</Message>",
                "<Message>", "later", "</Message>", "</Response>" >> >>
    /\ ret.value.next = NodeAX

----------------------------------------------------------------------------
(* Two Bot instances: the caller builds and runs now one, now the other *)

\* SwitchBot with one registry for all instances
SwitchBotSharingRegistry ==
    /\ pc = "idle"
    /\ other' = [ config |-> config, stateManager |-> stateManager, serving |-> serving ]
    /\ config' = other.config
    /\ serving' = other.serving
    /\ UNCHANGED <<stateManager, pc, args, handler, depth, messages, next, finalNode,
                   ops, ret, result, log, heap, parked, turn>>

\* between two calls the caller turns to the other instance: config and
\* stateManager are fields of the instance, set by its constructor
SwitchBot ==
    /\ pc = "idle"
    /\ other' = [ config |-> config, stateManager |-> stateManager, serving |-> serving ]
    /\ config' = other.config
    /\ stateManager' = other.stateManager
    /\ serving' = other.serving
    /\ UNCHANGED <<pc, args, handler, depth, messages, next, finalNode,
                   ops, ret, result, log, heap, parked, turn>>

\* the flow an instance registers nodes under: the one of its start node
OwnFlow(cfg) == SplitFirst(cfg.defaultStartNode, Dot)

InitBots == Init /\ config.plugins = NoPlugins

NextBots ==
    \/ \E id \in LocalIds :
          /\ FullId(OwnFlow(config), id) \in Keys
          /\ FlowNode(OwnFlow(config), id,
                      [ end |-> "undefined", onEnter |-> TRUE, onReceive |-> TRUE ])
    \/ \E node \in NodeArgs, message \in MessageArgs : Run(node, message)
    \/ InternalRunBegins
    \/ \E text \in Texts : HandlerSends(text)
    \/ \E target \in Targets : HandlerTransitions(target)
    \/ OnReceiveReturns
    \/ OnEnterReturns
    \/ \E e \in Errors : HandlerThrows(e)
    \/ RunSettles
    \/ SwitchBot

SpecBots == InitBots /\ [][NextBots]_vars

\* C26: the registry of an instance holds the nodes registered through that
\* instance and no other, and a run of an instance never finds, and so never
\* invokes a handler of, a node that was registered through the other one.
EachBotOwnsItsRegistry ==
    /\ \A k \in DOMAIN stateManager : FlowSegment(k) = FlowSegment(config.defaultStartNode)
    /\ \A k \in DOMAIN other.stateManager :
          FlowSegment(k) = FlowSegment(other.config.defaultStartNode)
    /\ \A i \in At("onReceive") \cup At("onEnter") :
          FlowSegment(log[i].node) = FlowSegment(config.defaultStartNode)
    /\ pc \in { "onEnter", "return" } /\ At("internalRun") # {} =>
          (finalNode # NoNode => FlowSegment(EndsOn) = FlowSegment(config.defaultStartNode))

\* a call on the first instance named a node that only the second instance
\* holds, with both handlers, and found nothing
NodeOfOtherBotNotFound ==
    /\ EngineReturned
    /\ config.defaultStartNode = NodeAX
    /\ Registered(NodeAX)
    /\ NodeBY \in DOMAIN other.stateManager
    /\ other.stateManager[NodeBY].onReceive /\ other.stateManager[NodeBY].onEnter
    /\ args.node = NodeBY /\ args.message = <<"h">>
    /\ At("onReceive") = {} /\ At("onEnter") = {}
    /\ ret.value = [ messages |-> <<>>, next |-> NodeBY, done |-> "undefined" ]

----------------------------------------------------------------------------
(* Termination: user code that was invoked completes *)

InitLive == Init /\ config.plugins \in { NoPlugins, << WithIntercept >> }

\* an intercept that was invoked calls next, returns or throws, and one
\* whose next() has settled returns or throws
InterceptGoesOn ==
    \/ PluginCallsNext
    \/ PluginShortCircuits
    \/ \E e \in Errors : PluginThrowsBefore(e)
    \/ PluginPassesOn
    \/ PluginReplaces
    \/ \E e \in Errors : PluginThrowsAfter(e)

\* a handler that was invoked returns or throws
HandlerCompletes ==
    \/ OnReceiveReturns
    \/ OnEnterReturns
    \/ \E e \in Errors : HandlerThrows(e)

NextLive ==
    \/ \E name \in FlowNames, id \in LocalIds :
          /\ FullId(name, id) \in Keys
          /\ FlowNode(name, id, [ end |-> "undefined", onEnter |-> TRUE, onReceive |-> TRUE ])
    \/ \E node \in NodeArgs, message \in MessageArgs : Run(node, message)
    \/ InterceptGoesOn
    \/ InternalRunBegins
    \/ \E text \in Texts : HandlerSends(text)
    \/ \E target \in Targets : HandlerTransitions(target)
    \/ HandlerCompletes
    \/ RunSettles

\* the runtime takes its own steps, and every invoked intercept and handler
\* eventually completes
SpecLive ==
    /\ InitLive
    /\ [][NextLive]_vars
    /\ WF_vars(InternalRunBegins)
    /\ WF_vars(InterceptGoesOn)
    /\ WF_vars(HandlerCompletes)

\* onReceive was invoked and has neither returned nor thrown
OnReceivePending ==
    /\ At("onReceive") # {}
    /\ \A k \in At("completed") : log[k].by # "onReceive"
    /\ \A k \in At("throw") : log[k].by # "onReceive"

\* C27: when every invoked handler and intercept completes, every run call
\* that was made settles, resolved or rejected; and as long as onReceive has
\* not completed the promise of internalRun is pending, no intercept has seen
\* it settle and no onEnter was invoked.
RunsSettleWhenUserCodeCompletes ==
    /\ (pc # "idle") ~> (Settling /\ ret.kind \in { "resolved", "rejected" })
    /\ [](OnReceivePending =>
            /\ ret = Pending
            /\ ~Settling
            /\ depth = Len(handler)
            /\ At("onEnter") = {} /\ At("exit") = {})

\* a call went through an intercept and both handlers and has settled
SettledThroughInterceptAndHandlers ==
    /\ Settling
    /\ InterceptOrder = <<1>> /\ ExitOrder = <<1>>
    /\ At("onReceive") # {} /\ At("onEnter") # {}
    /\ ret.kind = "resolved"

====
